---- MODULE Spec2Model ----
(***************************************************************************)
(* Model of libsl-machine/state_machine.c: a finite state machine with a   *)
(* 32-bit "valid target" mask per state, a deferred transition request     *)
(* (go_to_state) and a dispatcher (sm_run).                                *)
(*                                                                         *)
(* Representation notes                                                    *)
(*  - a uint32_t mask is the set of its set bit positions (a subset of     *)
(*    0..WordBits-1); "|" is \cup and "& x != 0" is a non-empty            *)
(*    intersection.                                                        *)
(*  - a uint32_t return value of sm_run is the pair <<hi, lo>> of its      *)
(*    16-bit halves, so that (uint32_t)(-1) is representable.              *)
(*  - a pointer &fsm->states[i] is the index i; an index >= state_nr is a  *)
(*    pointer past the array and every read through it is garbage.         *)
(***************************************************************************)
EXTENDS Integers, Sequences, FiniteSets, TLC

VARIABLES
    state_nr,       \* fsm->state_nr
    shift_ub,       \* what this build computes for 0x1 << n when n >= 32
    actual_state,   \* fsm->actual_state, as an index into fsm->states
    target_state,   \* fsm->target_state
    valid_target,   \* fsm->states[i].valid_target
    enabled,        \* private_data->enabled of state i
    run,            \* private_data->run of state i
    enter,          \* private_data->enter of state i
    last,           \* the last call made by the caller and what it returned
    calls,          \* the callbacks invoked during the last call
    aborted,        \* the process was killed by a wild access
    via,            \* history: the state the last applied transition left
    inner,          \* what a callback of the last call saw and requested
    heap            \* the malloc'ed blocks that were not freed

vars == <<state_nr, shift_ub, actual_state, target_state, valid_target,
          enabled, run, enter, last, calls, aborted, via, inner, heap>>

----------------------------------------------------------------------------
(* Bounds of the exploration *)

\* the state count of the machine that is wider than the 32-bit mask
BigNr == 33

----------------------------------------------------------------------------
(* Values *)

\* width of uint32_t valid_target and of the int constant 0x1
WordBits == 32

NULL == "NULL"

\* a non-null pointer that points to no function of the program
WILD == "WILD"

\* contents of malloc'ed memory that was never written
UNINIT == "UNINIT"

\* the (run, enter) pairs a caller registers
CbPairs == { <<"f", NULL>>, <<NULL, "h">>, <<"g", "k">> }

\* the opaque arg a caller hands to sm_run
Args == { "ctx" }

\* the identities a caller uses: all of a small machine plus the first
\* invalid one; for a machine wider than the mask, the identities around
\* the mask width
Ids(nr) == IF nr <= WordBits THEN 0..nr ELSE {0, WordBits, nr}

\* the edges a caller registers: any pair of the identities it uses; in
\* the three-state machine the edges of the graph 0->1, 1->2, 0->2 and
\* one edge to an identity out of range
EdgeInputs(nr) ==
    IF nr = 3 THEN { <<0, 1>>, <<1, 2>>, <<0, 2>>, <<0, 3>> }
    ELSE Ids(nr) \X Ids(nr)

\* conversion of an int to bool (_Bool): any non-zero value is true
ToBool(n) == n # 0

\* conversion of an int to uint32_t, as <<high half, low half>>
ToU32(n) == << (n \div (2^16)) % (2^16), n % (2^16) >>

\* 0x1 << n as a mask; a shift by the width or more is undefined
Shl1(n) ==
    IF n < WordBits THEN {n}
    ELSE IF shift_ub = "wrap" THEN {n % WordBits}
    ELSE {}

\* the values a read of a callback pointer can yield
ReadPtr(v) == IF v = UNINIT THEN {NULL, WILD} ELSE {v}

\* reads through a fsm_state_t pointer, garbage when past the array
ReadId(i) == IF i < state_nr THEN {i} ELSE Ids(state_nr)

ReadMask(i) == IF i < state_nr THEN {valid_target[i]} ELSE {{}, 0..(WordBits - 1)}

ReadRun(i) == IF i < state_nr THEN ReadPtr(run[i]) ELSE {NULL, WILD}

ReadEnter(i) == IF i < state_nr THEN ReadPtr(enter[i]) ELSE {NULL, WILD}

\* a call record: the operation, whether fsm was NULL, the tuple of its
\* identity arguments, its other argument, its bool result and its
\* uint32_t result
Call(op, isnull, ids, arg, okb, retu) ==
    [op |-> op, null |-> isnull, ids |-> ids, arg |-> arg,
     okb |-> okb, retu |-> retu]

NoRet == ToU32(0)

\* the caller uses the machine between create and destroy only
\* the blocks state_machine_init allocates
FsmBlock == <<"fsm", 0>>

StatesBlock == <<"states", 0>>

PrivateBlock(i) == <<"private_data", i>>

Alive == FsmBlock \in heap

\* the callbacks whose body reads get_state and calls go_to_state
Reentrant == { "k" }

----------------------------------------------------------------------------
(* state_machine_init *)

\* init starting every machine in state 0
state_machine_init_zero(nr, initial_state) ==
    /\ state_nr = nr
    /\ shift_ub \in (IF nr > WordBits THEN {"wrap", "zero"} ELSE {"wrap"})
    /\ valid_target = [i \in 0..(nr - 1) |-> {}]
    /\ enabled = [i \in 0..(nr - 1) |-> FALSE]
    /\ run = [i \in 0..(nr - 1) |-> UNINIT]
    /\ enter = [i \in 0..(nr - 1) |-> UNINIT]
    /\ actual_state = 0
    /\ target_state = initial_state
    /\ last = Call("init", FALSE, <<nr, initial_state>>, NULL, TRUE, NoRet)
    /\ calls = << >>
    /\ aborted = FALSE
    /\ via = << >>
    /\ inner = << >>
    /\ heap = {FsmBlock, StatesBlock} \cup { PrivateBlock(i) : i \in 0..(nr - 1) }

state_machine_init(nr, initial_state) ==
    /\ state_nr = nr
    /\ shift_ub \in (IF nr > WordBits THEN {"wrap", "zero"} ELSE {"wrap"})
    /\ valid_target = [i \in 0..(nr - 1) |-> {}]
    /\ enabled = [i \in 0..(nr - 1) |-> FALSE]
    /\ run = [i \in 0..(nr - 1) |-> UNINIT]
    /\ enter = [i \in 0..(nr - 1) |-> UNINIT]
    /\ actual_state = initial_state
    /\ target_state = initial_state
    /\ last = Call("init", FALSE, <<nr, initial_state>>, NULL, TRUE, NoRet)
    /\ calls = << >>
    /\ aborted = FALSE
    /\ via = << >>
    /\ inner = << >>
    /\ heap = {FsmBlock, StatesBlock} \cup { PrivateBlock(i) : i \in 0..(nr - 1) }

\* the state counts a caller creates machines with: two machines within
\* the mask width and one wider than it
StateNrs == {2, 3, BigNr}

\* create with initial_state < state_nr
Init ==
    \E nr \in StateNrs : \E i \in 0..(nr - 1) : i \in Ids(nr) /\ state_machine_init(nr, i)

\* create with any initial_state: the code does not compare it with
\* state_nr (the smallest and the widest machine)
InitAny ==
    \E nr \in {2, BigNr} : \E i \in Ids(nr) : state_machine_init(nr, i)

----------------------------------------------------------------------------
(* state_machine_add_state *)

\* add_state without the check of the enabled flag
state_machine_add_state_overwrite(isnull, id, r, e) ==
    /\ ~aborted /\ Alive
    /\ calls' = << >>
    /\ inner' = << >>
    /\ UNCHANGED heap
    /\ UNCHANGED <<state_nr, shift_ub, actual_state, target_state, valid_target, aborted, via>>
    /\ IF isnull
       THEN /\ last' = Call("add_state", TRUE, <<id>>, <<r, e>>, ToBool(-1), NoRet)
            /\ UNCHANGED <<enabled, run, enter>>
       ELSE IF id >= state_nr
       THEN /\ last' = Call("add_state", FALSE, <<id>>, <<r, e>>, FALSE, NoRet)
            /\ UNCHANGED <<enabled, run, enter>>
       ELSE /\ enabled' = [enabled EXCEPT ![id] = TRUE]
            /\ run' = [run EXCEPT ![id] = r]
            /\ enter' = [enter EXCEPT ![id] = e]
            /\ last' = Call("add_state", FALSE, <<id>>, <<r, e>>, ~enabled[id], NoRet)

\* add_state writing the private record of the current state
state_machine_add_state_current(isnull, id, r, e) ==
    /\ ~aborted /\ Alive
    /\ calls' = << >>
    /\ inner' = << >>
    /\ UNCHANGED heap
    /\ UNCHANGED <<state_nr, shift_ub, actual_state, target_state, valid_target, aborted, via>>
    /\ IF isnull
       THEN /\ last' = Call("add_state", TRUE, <<id>>, <<r, e>>, ToBool(-1), NoRet)
            /\ UNCHANGED <<enabled, run, enter>>
       ELSE IF id >= state_nr
       THEN /\ last' = Call("add_state", FALSE, <<id>>, <<r, e>>, FALSE, NoRet)
            /\ UNCHANGED <<enabled, run, enter>>
       ELSE IF enabled[id] = FALSE
       THEN /\ enabled' = [enabled EXCEPT ![id] = TRUE]
            /\ run' = [run EXCEPT ![actual_state] = r]
            /\ enter' = [enter EXCEPT ![actual_state] = e]
            /\ last' = Call("add_state", FALSE, <<id>>, <<r, e>>, TRUE, NoRet)
       ELSE /\ last' = Call("add_state", FALSE, <<id>>, <<r, e>>, FALSE, NoRet)
            /\ UNCHANGED <<enabled, run, enter>>

state_machine_add_state(isnull, id, r, e) ==
    /\ ~aborted /\ Alive
    /\ calls' = << >>
    /\ inner' = << >>
    /\ UNCHANGED heap
    /\ UNCHANGED <<state_nr, shift_ub, actual_state, target_state, valid_target, aborted, via>>
    /\ IF isnull
       THEN /\ last' = Call("add_state", TRUE, <<id>>, <<r, e>>, ToBool(-1), NoRet)
            /\ UNCHANGED <<enabled, run, enter>>
       ELSE IF id >= state_nr
       THEN /\ last' = Call("add_state", FALSE, <<id>>, <<r, e>>, FALSE, NoRet)
            /\ UNCHANGED <<enabled, run, enter>>
       ELSE IF enabled[id] = FALSE
       THEN /\ enabled' = [enabled EXCEPT ![id] = TRUE]
            /\ run' = [run EXCEPT ![id] = r]
            /\ enter' = [enter EXCEPT ![id] = e]
            /\ last' = Call("add_state", FALSE, <<id>>, <<r, e>>, TRUE, NoRet)
       ELSE /\ last' = Call("add_state", FALSE, <<id>>, <<r, e>>, FALSE, NoRet)
            /\ UNCHANGED <<enabled, run, enter>>

----------------------------------------------------------------------------
(* state_machine_add_transition *)

\* add_transition checking the starting state only
state_machine_add_transition_from_only(isnull, state_id, target_id) ==
    /\ ~aborted /\ Alive
    /\ calls' = << >>
    /\ inner' = << >>
    /\ UNCHANGED heap
    /\ UNCHANGED <<state_nr, shift_ub, actual_state, target_state, enabled, run, enter, via>>
    /\ IF isnull
       THEN /\ UNCHANGED valid_target
            /\ \/ /\ aborted' = TRUE
                  /\ last' = Call("add_transition", TRUE, <<state_id, target_id>>, NULL, FALSE, NoRet)
               \/ /\ aborted' = FALSE
                  /\ \E ok \in BOOLEAN :
                        last' = Call("add_transition", TRUE, <<state_id, target_id>>, NULL, ok, NoRet)
       ELSE IF state_id >= state_nr
       THEN /\ last' = Call("add_transition", FALSE, <<state_id, target_id>>, NULL, FALSE, NoRet)
            /\ UNCHANGED <<valid_target, aborted>>
       ELSE /\ valid_target' = [valid_target EXCEPT
                                  ![state_id] = valid_target[state_id] \cup Shl1(target_id)]
            /\ last' = Call("add_transition", FALSE, <<state_id, target_id>>,
                            valid_target[state_id], target_id < state_nr, NoRet)
            /\ UNCHANGED aborted

\* add_transition toggling the bit (^= for |=)
state_machine_add_transition_toggle(isnull, state_id, target_id) ==
    /\ ~aborted /\ Alive
    /\ calls' = << >>
    /\ inner' = << >>
    /\ UNCHANGED heap
    /\ UNCHANGED <<state_nr, shift_ub, actual_state, target_state, enabled, run, enter, via>>
    /\ IF isnull
       THEN \* fsm->state_nr is read through a null pointer
            /\ UNCHANGED valid_target
            /\ \/ /\ aborted' = TRUE
                  /\ last' = Call("add_transition", TRUE, <<state_id, target_id>>, NULL, FALSE, NoRet)
               \/ /\ aborted' = FALSE
                  /\ \E ok \in BOOLEAN :
                        last' = Call("add_transition", TRUE, <<state_id, target_id>>, NULL, ok, NoRet)
       ELSE IF (state_id >= state_nr) \/ (target_id >= state_nr)
       THEN /\ last' = Call("add_transition", FALSE, <<state_id, target_id>>, NULL, FALSE, NoRet)
            /\ UNCHANGED <<valid_target, aborted>>
       ELSE /\ valid_target' = [valid_target EXCEPT
                                  ![state_id] = (valid_target[state_id] \ Shl1(target_id))
                                                 \cup (Shl1(target_id) \ valid_target[state_id])]
            /\ last' = Call("add_transition", FALSE, <<state_id, target_id>>,
                            valid_target[state_id], TRUE, NoRet)
            /\ UNCHANGED aborted

\* add_transition storing the bit alone (= for |=)
state_machine_add_transition_assign(isnull, state_id, target_id) ==
    /\ ~aborted /\ Alive
    /\ calls' = << >>
    /\ inner' = << >>
    /\ UNCHANGED heap
    /\ UNCHANGED <<state_nr, shift_ub, actual_state, target_state, enabled, run, enter, via>>
    /\ IF isnull
       THEN \* fsm->state_nr is read through a null pointer
            /\ UNCHANGED valid_target
            /\ \/ /\ aborted' = TRUE
                  /\ last' = Call("add_transition", TRUE, <<state_id, target_id>>, NULL, FALSE, NoRet)
               \/ /\ aborted' = FALSE
                  /\ \E ok \in BOOLEAN :
                        last' = Call("add_transition", TRUE, <<state_id, target_id>>, NULL, ok, NoRet)
       ELSE IF (state_id >= state_nr) \/ (target_id >= state_nr)
       THEN /\ last' = Call("add_transition", FALSE, <<state_id, target_id>>, NULL, FALSE, NoRet)
            /\ UNCHANGED <<valid_target, aborted>>
       ELSE /\ valid_target' = [valid_target EXCEPT
                                  ![state_id] = Shl1(target_id)]
            /\ last' = Call("add_transition", FALSE, <<state_id, target_id>>,
                            valid_target[state_id], TRUE, NoRet)
            /\ UNCHANGED aborted

state_machine_add_transition(isnull, state_id, target_id) ==
    /\ ~aborted /\ Alive
    /\ calls' = << >>
    /\ inner' = << >>
    /\ UNCHANGED heap
    /\ UNCHANGED <<state_nr, shift_ub, actual_state, target_state, enabled, run, enter, via>>
    /\ IF isnull
       THEN \* fsm->state_nr is read through a null pointer
            /\ UNCHANGED valid_target
            /\ \/ /\ aborted' = TRUE
                  /\ last' = Call("add_transition", TRUE, <<state_id, target_id>>, NULL, FALSE, NoRet)
               \/ /\ aborted' = FALSE
                  /\ \E ok \in BOOLEAN :
                        last' = Call("add_transition", TRUE, <<state_id, target_id>>, NULL, ok, NoRet)
       ELSE IF (state_id >= state_nr) \/ (target_id >= state_nr)
       THEN /\ last' = Call("add_transition", FALSE, <<state_id, target_id>>, NULL, FALSE, NoRet)
            /\ UNCHANGED <<valid_target, aborted>>
       ELSE /\ valid_target' = [valid_target EXCEPT
                                  ![state_id] = valid_target[state_id] \cup Shl1(target_id)]
            /\ last' = Call("add_transition", FALSE, <<state_id, target_id>>,
                            valid_target[state_id], TRUE, NoRet)
            /\ UNCHANGED aborted

----------------------------------------------------------------------------
(* state_machine_go_to_state *)

\* go_to_state checking the mask of the pending target
state_machine_go_to_state_pending(isnull, target_id) ==
    /\ ~aborted /\ Alive
    /\ calls' = << >>
    /\ inner' = << >>
    /\ UNCHANGED heap
    /\ UNCHANGED <<state_nr, shift_ub, actual_state, valid_target, enabled, run, enter, aborted, via>>
    /\ IF isnull
       THEN /\ last' = Call("go_to_state", TRUE, <<target_id>>, NULL, ToBool(-1), NoRet)
            /\ UNCHANGED target_state
       ELSE IF target_id >= state_nr
       THEN /\ last' = Call("go_to_state", FALSE, <<target_id>>, NULL, FALSE, NoRet)
            /\ UNCHANGED target_state
       ELSE \E state_mask \in ReadMask(target_state) :
              IF (state_mask \cap Shl1(target_id)) # {}
              THEN /\ target_state' = target_id
                   /\ last' = Call("go_to_state", FALSE, <<target_id>>, NULL, TRUE, NoRet)
              ELSE /\ last' = Call("go_to_state", FALSE, <<target_id>>, NULL, FALSE, NoRet)
                   /\ UNCHANGED target_state

\* go_to_state applying the transition at once
state_machine_go_to_state_eager(isnull, target_id) ==
    /\ ~aborted /\ Alive
    /\ calls' = << >>
    /\ inner' = << >>
    /\ UNCHANGED heap
    /\ UNCHANGED <<state_nr, shift_ub, valid_target, enabled, run, enter, aborted, via>>
    /\ IF isnull
       THEN /\ last' = Call("go_to_state", TRUE, <<target_id>>, NULL, ToBool(-1), NoRet)
            /\ UNCHANGED <<target_state, actual_state>>
       ELSE IF target_id >= state_nr
       THEN /\ last' = Call("go_to_state", FALSE, <<target_id>>, NULL, FALSE, NoRet)
            /\ UNCHANGED <<target_state, actual_state>>
       ELSE \E state_mask \in ReadMask(actual_state) :
              IF (state_mask \cap Shl1(target_id)) # {}
              THEN /\ target_state' = target_id
                   /\ actual_state' = target_id
                   /\ last' = Call("go_to_state", FALSE, <<target_id>>, NULL, TRUE, NoRet)
              ELSE /\ last' = Call("go_to_state", FALSE, <<target_id>>, NULL, FALSE, NoRet)
                   /\ UNCHANGED <<target_state, actual_state>>

state_machine_go_to_state(isnull, target_id) ==
    /\ ~aborted /\ Alive
    /\ calls' = << >>
    /\ inner' = << >>
    /\ UNCHANGED heap
    /\ UNCHANGED <<state_nr, shift_ub, actual_state, valid_target, enabled, run, enter, aborted, via>>
    /\ IF isnull
       THEN /\ last' = Call("go_to_state", TRUE, <<target_id>>, NULL, ToBool(-1), NoRet)
            /\ UNCHANGED target_state
       ELSE IF target_id >= state_nr
       THEN /\ last' = Call("go_to_state", FALSE, <<target_id>>, NULL, FALSE, NoRet)
            /\ UNCHANGED target_state
       ELSE \E state_mask \in ReadMask(actual_state) :
              IF (state_mask \cap Shl1(target_id)) # {}
              THEN /\ target_state' = target_id
                   /\ last' = Call("go_to_state", FALSE, <<target_id>>, NULL, TRUE, NoRet)
              ELSE /\ last' = Call("go_to_state", FALSE, <<target_id>>, NULL, FALSE, NoRet)
                   /\ UNCHANGED target_state

----------------------------------------------------------------------------
(* state_machine_get_state *)

state_machine_get_state == ReadId(actual_state)

----------------------------------------------------------------------------
(* state_machine_run *)

\* the body of a callback: a re-entrant one reads get_state and requests
\* a transition to x through go_to_state, while fsm->actual_state is cur
Body(fn, cur) ==
    IF fn \in Reentrant
    THEN \E x \in Ids(state_nr) : \E seen \in ReadId(cur) : \E state_mask \in ReadMask(cur) :
           LET ok == (x < state_nr) /\ ((state_mask \cap Shl1(x)) # {}) IN
           /\ inner' = << [seen |-> seen, req |-> x, ok |-> ok] >>
           /\ target_state' = IF ok THEN x ELSE target_state
    ELSE /\ inner' = << >>
         /\ UNCHANGED target_state

\* a call through a callback pointer: a wild pointer kills the process or
\* happens to return
Invoke(slot, fn, args, arg, cur) ==
    /\ calls' = << [slot |-> slot, fn |-> fn, args |-> args] >>
    /\ Body(fn, cur)
    /\ IF fn = WILD
       THEN \/ /\ aborted' = TRUE
               /\ last' = Call("run", FALSE, << >>, arg, FALSE, NoRet)
            \/ /\ aborted' = FALSE
               /\ \E retid \in ReadId(cur) :
                    last' = Call("run", FALSE, << >>, arg, TRUE, ToU32(retid))
       ELSE /\ aborted' = FALSE
            /\ \E retid \in ReadId(cur) :
                 last' = Call("run", FALSE, << >>, arg, TRUE, ToU32(retid))

NoInvoke(arg, cur) ==
    /\ calls' = << >>
    /\ inner' = << >>
    /\ aborted' = FALSE
    /\ UNCHANGED target_state
    /\ \E retid \in ReadId(cur) :
         last' = Call("run", FALSE, << >>, arg, TRUE, ToU32(retid))

\* run invoking the enter callback before it updates actual_state
state_machine_run_enter_first(isnull, arg) ==
    /\ ~aborted /\ Alive
    /\ UNCHANGED heap
    /\ UNCHANGED <<state_nr, shift_ub, valid_target, enabled, run, enter>>
    /\ IF isnull
       THEN /\ last' = Call("run", TRUE, << >>, arg, FALSE, ToU32(-1))
            /\ calls' = << >>
            /\ inner' = << >>
            /\ UNCHANGED <<actual_state, target_state, aborted, via>>
       ELSE \E aid \in ReadId(actual_state) :
              IF aid = target_state
              THEN /\ UNCHANGED <<actual_state, via>>
                   /\ \E fn \in ReadRun(actual_state) :
                        IF fn # NULL
                        THEN Invoke("run", fn, <<arg>>, arg, actual_state)
                        ELSE NoInvoke(arg, actual_state)
              ELSE \E id \in state_machine_get_state :
                     /\ actual_state' = target_state
                     /\ via' = <<id>>
                     /\ \E fn \in ReadEnter(target_state) :
                          IF fn # NULL
                          THEN /\ calls' = << [slot |-> "enter", fn |-> fn, args |-> <<id, arg>>] >>
                               /\ Body(fn, actual_state)
                               /\ aborted' = (fn = WILD)
                               /\ last' = Call("run", FALSE, << >>, arg, fn # WILD,
                                               IF fn = WILD THEN NoRet ELSE ToU32(target_state))
                          ELSE NoInvoke(arg, target_state)

state_machine_run(isnull, arg) ==
    /\ ~aborted /\ Alive
    /\ UNCHANGED heap
    /\ UNCHANGED <<state_nr, shift_ub, valid_target, enabled, run, enter>>
    /\ IF isnull
       THEN /\ last' = Call("run", TRUE, << >>, arg, FALSE, ToU32(-1))
            /\ calls' = << >>
            /\ inner' = << >>
            /\ UNCHANGED <<actual_state, target_state, aborted, via>>
       ELSE \E aid \in ReadId(actual_state) :
              IF aid = target_state
              THEN /\ UNCHANGED <<actual_state, via>>
                   /\ \E fn \in ReadRun(actual_state) :
                        IF fn # NULL
                        THEN Invoke("run", fn, <<arg>>, arg, actual_state)
                        ELSE NoInvoke(arg, actual_state)
              ELSE \E id \in state_machine_get_state :
                     /\ actual_state' = target_state
                     /\ via' = <<id>>
                     /\ \E fn \in ReadEnter(target_state) :
                          IF fn # NULL
                          THEN Invoke("enter", fn, <<id, arg>>, arg, target_state)
                          ELSE NoInvoke(arg, target_state)

----------------------------------------------------------------------------
(* state_machine_deinit *)

\* deinit freeing each state's private record as well
state_machine_deinit_all(isnull) ==
    /\ ~aborted /\ Alive
    /\ calls' = << >>
    /\ inner' = << >>
    /\ UNCHANGED <<state_nr, shift_ub, actual_state, target_state, valid_target,
                   enabled, run, enter, via>>
    /\ IF isnull
       THEN /\ UNCHANGED heap
            /\ aborted' \in BOOLEAN
            /\ last' = Call("deinit", TRUE, << >>, NULL, FALSE, NoRet)
       ELSE /\ heap' = {}
            /\ last' = Call("deinit", FALSE, << >>, NULL, TRUE, NoRet)
            /\ UNCHANGED aborted

state_machine_deinit(isnull) ==
    /\ ~aborted /\ Alive
    /\ calls' = << >>
    /\ inner' = << >>
    /\ UNCHANGED <<state_nr, shift_ub, actual_state, target_state, valid_target,
                   enabled, run, enter, via>>
    /\ IF isnull
       THEN \* fsm->states is read through a null pointer
            /\ UNCHANGED heap
            /\ aborted' \in BOOLEAN
            /\ last' = Call("deinit", TRUE, << >>, NULL, FALSE, NoRet)
       ELSE /\ heap' = (heap \ {StatesBlock}) \ {FsmBlock}
            /\ last' = Call("deinit", FALSE, << >>, NULL, TRUE, NoRet)
            /\ UNCHANGED aborted

----------------------------------------------------------------------------
(* The caller *)

AddState ==
    \/ \E id \in Ids(state_nr) : \E cb \in CbPairs :
          state_machine_add_state(FALSE, id, cb[1], cb[2])
    \/ state_machine_add_state(TRUE, 0, NULL, NULL)

AddTransition ==
    \/ \E e \in EdgeInputs(state_nr) :
          state_machine_add_transition(FALSE, e[1], e[2])
    \/ state_machine_add_transition(TRUE, 0, 0)

GoToState ==
    \/ \E t \in Ids(state_nr) : state_machine_go_to_state(FALSE, t)
    \/ state_machine_go_to_state(TRUE, 0)

Run ==
    \E isnull \in BOOLEAN : \E arg \in Args :
        state_machine_run(isnull, arg)

Deinit ==
    \E isnull \in BOOLEAN : state_machine_deinit(isnull)

Next == AddState \/ AddTransition \/ GoToState \/ Run \/ Deinit

Spec == Init /\ [][Next]_vars

SpecAnyInit == InitAny /\ [][Next]_vars

----------------------------------------------------------------------------
(* Vocabulary of the properties *)

\* the step is a call of op on a valid (non-NULL) machine
Called(op) == last'.op = op /\ ~last'.null

\* the targets a request made from state s may name: the identities whose
\* bit the legality test of go_to_state finds in the mask of s
allowed_in(vt, s) ==
    { c \in 0..(state_nr - 1) : (vt[s] \cap Shl1(c)) # {} }

allowed_targets(s) == allowed_in(valid_target, s)

\* state i holds a callback in the slot
Present(slot, i) == slot[i] # NULL /\ slot[i] # UNINIT

\* the callbacks a dispatch is to invoke
StayCall(i, arg) ==
    IF Present(run, i)
    THEN << [slot |-> "run", fn |-> run[i], args |-> <<arg>>] >>
    ELSE << >>

EnterCall(i, prev, arg) ==
    IF Present(enter, i)
    THEN << [slot |-> "enter", fn |-> enter[i], args |-> <<prev, arg>>] >>
    ELSE << >>

----------------------------------------------------------------------------
(* C1: after a successful requestTransition(b) made in state a # b, the    *)
(* next run invokes b's onEnter exactly once with (a, arg) and no onStay,  *)
(* returns b and leaves the machine in b; a run that follows a run invokes *)
(* onStay (if present) and never onEnter.                                  *)
C1_EnterOnceThenStay ==
    [][ /\ ( /\ last.op = "go_to_state" /\ ~last.null /\ last.okb
             /\ last.ids[1] # actual_state
             /\ Called("run") )
           => /\ ~aborted'
              /\ calls' = EnterCall(last.ids[1], actual_state, last'.arg)
              /\ last'.retu = ToU32(last.ids[1])
              /\ actual_state' = last.ids[1]
        /\ ( /\ via # << >> /\ actual_state = target_state
             /\ Called("run") )
           => /\ ~aborted'
              /\ calls' = StayCall(actual_state, last'.arg)
              /\ actual_state' = actual_state
      ]_vars

C3_RequestOnlySchedules ==
    [][ /\ (Called("go_to_state") /\ last'.okb)
           => /\ target_state' = last'.ids[1]
              /\ UNCHANGED <<state_nr, actual_state, valid_target, enabled, run, enter>>
              /\ calls' = << >>
        /\ (actual_state' # actual_state) => Called("run")
      ]_vars

\* a transition is scheduled and not yet applied
C3_Witness ==
    /\ last.op = "go_to_state" /\ ~last.null /\ last.okb
    /\ target_state = last.ids[1]
    /\ target_state # actual_state

(* C4: in every state reachable after create, the identity of the current  *)
(* state and target are in 0..stateCount-1.                                *)
C4_IdentitiesInRange ==
    /\ \A id \in state_machine_get_state : 0 <= id /\ id < state_nr
    /\ 0 <= target_state /\ target_state < state_nr

(* C5: addState on a valid identity succeeds iff the state is not yet      *)
(* registered; once registered, a state keeps the callbacks of its first   *)
(* registration, and run goes on firing them.                              *)
C5_RegisteredOnce ==
    [][ /\ (Called("add_state") /\ last'.ids[1] < state_nr)
           => LET id == last'.ids[1] IN
              /\ last'.okb <=> ~enabled[id]
              /\ last'.okb => /\ enabled'[id]
                              /\ run'[id] = last'.arg[1]
                              /\ enter'[id] = last'.arg[2]
        /\ \A i \in 0..(state_nr - 1) :
              enabled[i] => /\ enabled'[i]
                            /\ run'[i] = run[i]
                            /\ enter'[i] = enter[i]
        /\ (Called("run") /\ enabled[target_state])
           => /\ ~aborted'
              /\ calls' = IF actual_state = target_state
                          THEN StayCall(actual_state, last'.arg)
                          ELSE EnterCall(target_state, actual_state, last'.arg)
      ]_vars

\* a registered state refused a registration with other callbacks
C5_Witness ==
    /\ last.op = "add_state" /\ ~last.null /\ ~last.okb
    /\ last.ids[1] < state_nr
    /\ enabled[last.ids[1]]
    /\ <<run[last.ids[1]], enter[last.ids[1]]>> # last.arg

(* C6: run with current = target invokes the current state's onStay (if    *)
(* present) with arg and no onEnter, returns the current identity and      *)
(* changes nothing of the machine.                                         *)
C6_StayTick ==
    [][ (Called("run") /\ actual_state = target_state)
           => /\ ~aborted'
              /\ calls' = StayCall(actual_state, last'.arg)
              /\ last'.retu = ToU32(actual_state)
              /\ UNCHANGED <<actual_state, target_state, valid_target, enabled, run, enter>>
      ]_vars

(* C7: addState, addTransition and requestTransition called on a valid     *)
(* machine with an identity >= stateCount fail and change nothing.         *)
C7_InvalidIdentityRejected ==
    [][ ( /\ \/ Called("add_state") \/ Called("add_transition") \/ Called("go_to_state")
          /\ \E k \in DOMAIN last'.ids : last'.ids[k] >= state_nr )
           => /\ ~last'.okb
              /\ ~aborted'
              /\ calls' = << >>
              /\ UNCHANGED <<state_nr, actual_state, target_state, valid_target,
                             enabled, run, enter>>
      ]_vars

\* an edge from a valid state to an identity out of range was refused
C7_Witness ==
    /\ last.op = "add_transition" /\ ~last.null /\ ~last.okb
    /\ last.ids[1] < state_nr
    /\ last.ids[2] >= state_nr

(* C8: on an absent (NULL) machine no call aborts; addState, addTransition *)
(* and requestTransition return false, run invokes no callback and returns *)
(* a value that is no identity of any machine.                             *)
C8_NullMachineFails ==
    [][ (last'.null /\ last'.op \in {"add_state", "add_transition", "go_to_state", "run"})
           => /\ ~aborted'
              /\ calls' = << >>
              /\ (last'.op # "run") => ~last'.okb
              /\ (last'.op = "run") => last'.retu = <<2^16 - 1, 2^16 - 1>>
      ]_vars

(* C9: a run that dispatches to a state for which addState was never       *)
(* called invokes no callback and otherwise steps as usual.                *)
C9_UnregisteredSilent ==
    [][ (Called("run") /\ ~enabled[target_state])
           => /\ ~aborted'
              /\ calls' = << >>
              /\ actual_state' = target_state
              /\ last'.retu = ToU32(target_state)
      ]_vars

(* C10: a successful addTransition(fromId, toId) adds exactly toId to the  *)
(* allowed_targets of fromId, for every stateCount create accepts.         *)
C10_AddsExactlyTarget ==
    [][ (Called("add_transition") /\ last'.okb)
           => allowed_in(valid_target', last'.ids[1])
                = allowed_in(valid_target, last'.ids[1]) \cup {last'.ids[2]}
      ]_vars

(* C11: addTransition is idempotent: registering an edge a->b that is      *)
(* registered already succeeds again and leaves the machine exactly as it  *)
(* was after the first registration.                                       *)
C11_AddTransitionIdempotent ==
    [][ ( /\ Called("add_transition")
          /\ last'.ids[1] < state_nr /\ last'.ids[2] < state_nr
          /\ Shl1(last'.ids[2]) \subseteq valid_target[last'.ids[1]] )
           => /\ last'.okb
              /\ UNCHANGED <<state_nr, actual_state, target_state, valid_target,
                             enabled, run, enter, via, heap, aborted>>
              /\ calls' = << >>
      ]_vars

\* an edge was registered whose bit the mask held already
C11_Witness ==
    /\ last.op = "add_transition" /\ ~last.null /\ last.okb
    /\ Shl1(last.ids[2]) # {}
    /\ Shl1(last.ids[2]) \subseteq last.arg
    /\ valid_target[last.ids[1]] = last.arg

(* C12: every state's allowed_targets only grows: no step removes an       *)
(* identity from a set, and only addTransition changes a set.              *)
C12_AllowedTargetsGrow ==
    [][ /\ \A i \in 0..(state_nr - 1) :
              /\ valid_target[i] \subseteq valid_target'[i]
              /\ (valid_target'[i] # valid_target[i])
                   => allowed_in(valid_target, i) \subseteq allowed_in(valid_target', i)
        /\ (valid_target' # valid_target) => Called("add_transition")
      ]_vars

\* a second target was added to a set that held another one
C12_Witness ==
    /\ last.op = "add_transition" /\ ~last.null /\ last.okb
    /\ last.arg # {}
    /\ last.arg # valid_target[last.ids[1]]
    /\ last.arg \subseteq valid_target[last.ids[1]]

(* C13: a successful addState(id, onStay, onEnter) changes the record of   *)
(* state id only: current, target, every allowed_targets set and the       *)
(* records of the other states stay as they are.                           *)
C13_AddStateFrame ==
    [][ (Called("add_state") /\ last'.okb)
           => LET id == last'.ids[1] IN
              /\ enabled'[id] /\ run'[id] = last'.arg[1] /\ enter'[id] = last'.arg[2]
              /\ \A i \in (0..(state_nr - 1)) \ {id} :
                    /\ enabled'[i] = enabled[i]
                    /\ run'[i] = run[i]
                    /\ enter'[i] = enter[i]
              /\ UNCHANGED <<state_nr, actual_state, target_state, valid_target>>
      ]_vars

\* the pending target was registered while the machine was in another state
C13_Witness ==
    /\ last.op = "add_state" /\ ~last.null /\ last.okb
    /\ last.ids[1] = target_state
    /\ target_state # actual_state

(* C14: right after create with initialState < stateCount, current and     *)
(* target are initialState, every state is disabled and has no allowed     *)
(* target; every requestTransition fails while no edge is registered.      *)
C14_AfterCreate ==
    /\ [](last.op = "init"
           => /\ actual_state = last.ids[2]
              /\ target_state = last.ids[2]
              /\ state_machine_get_state = {last.ids[2]}
              /\ \A i \in 0..(state_nr - 1) :
                    /\ ~enabled[i]
                    /\ valid_target[i] = {}
                    /\ allowed_targets(i) = {})
    /\ [][ ( /\ \A i \in 0..(state_nr - 1) : valid_target[i] = {}
             /\ Called("go_to_state") )
              => ~last'.okb ]_vars

\* a machine was created in a state other than state 0
C14_Witness ==
    /\ last.op = "init"
    /\ last.ids[2] # 0
    /\ last.ids[2] < state_nr

C16_EnterSeesNewState ==
    [][ (Called("run") /\ actual_state # target_state)
           => /\ actual_state' = target_state
              /\ via' = <<actual_state>>
              /\ (calls' # << >>)
                   => /\ calls'[1].slot = "enter"
                      /\ calls'[1].args[1] = actual_state
              /\ (inner' # << >>)
                   => /\ inner'[1].seen = actual_state'
                      /\ inner'[1].ok <=> /\ inner'[1].req < state_nr
                                          /\ inner'[1].req \in allowed_targets(actual_state')
                      /\ target_state' = IF inner'[1].ok THEN inner'[1].req
                                                          ELSE target_state
              /\ (inner' = << >>) => target_state' = target_state
      ]_vars

\* onEnter requested a target that the state just left does not allow
C16_Witness ==
    /\ last.op = "run" /\ ~last.null
    /\ calls # << >> /\ calls[1].slot = "enter"
    /\ inner # << >> /\ inner[1].ok
    /\ via # << >>
    /\ inner[1].req \notin allowed_targets(via[1])
    /\ target_state = inner[1].req

(* C17: a requestTransition made while another request is pending is       *)
(* validated against the unchanged current state, never against the       *)
(* pending target; the last successful request determines target; the next *)
(* run makes a single transition into that target and invokes exactly its  *)
(* onEnter, so that no other state is entered or called.                   *)
C17_LastRequestWins ==
    [][ /\ ( /\ Called("go_to_state")
             /\ target_state # actual_state )
           => /\ actual_state' = actual_state
              /\ last'.okb <=> /\ last'.ids[1] < state_nr
                               /\ last'.ids[1] \in allowed_targets(actual_state)
              /\ target_state' = IF last'.okb THEN last'.ids[1] ELSE target_state
        /\ ( /\ Called("run")
             /\ target_state # actual_state )
           => /\ ~aborted'
              /\ actual_state' = target_state
              /\ calls' = EnterCall(target_state, actual_state, last'.arg)
              /\ last'.retu = ToU32(target_state)
      ]_vars

(* C18: requestTransition(current.identity) succeeds only if the self-edge *)
(* current -> current is registered, so a pending transition is cancelled  *)
(* only through a registered self-edge; after a successful self-request    *)
(* the next run invokes onStay and never onEnter, and stays.               *)
C18_SelfRequestNeedsSelfEdge ==
    [][ /\ ( /\ Called("go_to_state")
             /\ last'.ids[1] = actual_state
             /\ last'.okb )
           => /\ actual_state \in allowed_targets(actual_state)
              /\ target_state' = actual_state
        /\ ( /\ Called("go_to_state")
             /\ target_state # actual_state
             /\ target_state' = actual_state )
           => /\ last'.ids[1] = actual_state /\ last'.okb
              /\ actual_state \in allowed_targets(actual_state)
        /\ ( /\ last.op = "go_to_state" /\ ~last.null /\ last.okb
             /\ last.ids[1] = actual_state
             /\ Called("run") )
           => /\ ~aborted'
              /\ calls' = StayCall(actual_state, last'.arg)
              /\ actual_state' = actual_state
              /\ last'.retu = ToU32(actual_state)
      ]_vars

(* C19: every run on a valid machine returns the value currentState        *)
(* returns right afterwards, and leaves no transition pending unless a     *)
(* callback invoked by that run requested one.                             *)
C19_RunReturnsCurrent ==
    [][ Called("run")
           => /\ ~aborted'
              /\ last'.okb
              /\ \A id \in state_machine_get_state' : last'.retu = ToU32(id)
              /\ \/ target_state' = actual_state'
                 \/ /\ inner' # << >>
                    /\ inner'[1].ok
                    /\ target_state' = inner'[1].req
      ]_vars

(* C20: destroy releases everything create allocated: after destroy on a   *)
(* valid machine no block remains allocated, neither the machine record    *)
(* nor the states array nor any state's private callback record.           *)
C20_DestroyReleasesAll ==
    (last.op = "deinit" /\ ~last.null) => heap = {}

====
